---- MODULE Spec2Model ----
(***************************************************************************)
(* Model of src/src/actor.rs: a GenServer-style actor.  Builder::start     *)
(* runs init, spawns the run-loop thread and returns an Actor handle; the  *)
(* caller talks to the loop through two mpsc channels (itx -> irx for      *)
(* Call/Cast/Info, otx -> orx for Reply).                                  *)
(*                                                                         *)
(* Time: SteadyTime values are kept relative to the current instant, so    *)
(* the clock reading is always Now and an armed deadline is stored as the  *)
(* offset go_time - now.  A clock tick lowers every stored offset by one;  *)
(* offsets below Now - 1 are all "deadline already passed" and are kept    *)
(* as Now - 1.                                                             *)
(***************************************************************************)
EXTENDS Integers, Sequences, FiniteSets, TLC

VARIABLES
    builder,        \* "built" | "started" | "init_failed": Builder (consumed by start)
    state,          \* the user state A::S, owned by start and then by the run loop
    handle,         \* the thread / JoinHandle result
    actor,          \* "none" | "held" | "dropped": the Actor (itx sender and orx receiver)
    pc,             \* thread position: "top" (deadline check) | "recv" (try_recv) |
                    \* "drop_otx" | "drop_irx" (leaving the closure) | "done"
    timeout,        \* the loop's `timeout: Option<SteadyTime>`
    irx,            \* caller-to-actor channel contents
    orx,            \* actor-to-caller channel contents
    caller,         \* the caller thread: idle, or blocked in call()'s recv
    ret,            \* history: outcome of the most recent cast / call
    sent,           \* history: envelopes accepted by itx.send, in send order
    dispatched,     \* history: envelopes taken by try_recv, in dispatch order
    last,           \* history: the handler invocation of the latest loop step, if it made one
    expected,       \* history: reply payload produced by handle_call for the pending call
    stopped_normal, \* history: some handler has returned Stop(Normal, _)
    init_state,     \* history: the state as init left it
    seen0           \* history: the state the first handler invocation observed

vars == <<builder, state, handle, actor, pc, timeout, irx, orx, caller, ret,
          sent, dispatched, last, expected, stopped_normal, init_state, seen0>>

\* ---------------------------------------------------------------- bounds
MaxSends == 2       \* envelopes the caller sends in one run
MaxMs == 2          \* largest wait (ms) a handler or init asks for
MaxPayload == 2     \* reply payloads are 1..MaxPayload

\* ---------------------------------------------------------------- types
None == <<>>
Some(v) == <<v>>

Payload == 1..MaxPayload
\* the user state, after the tests' MyState { initialized: bool }
StateVals == [initialized : BOOLEAN]
\* MyState::new()
NewState == [initialized |-> FALSE]
Desc == {"d1", "d2"}
OptMs == {None, Some(0), Some(MaxMs)}
OptPayload == {None} \cup {Some(p) : p \in Payload}

StopReason == {[tag |-> "Normal"]} \cup {[tag |-> "Other", desc |-> d] : d \in Desc}

HandleResult ==
    [tag : {"Reply"}, msg : Payload, timeout : OptMs]
        \cup [tag : {"NoReply"}, timeout : OptMs]
        \cup [tag : {"Stop"}, reason : StopReason, reply : OptPayload]

\* what a handler invocation can end in: a HandleResult, or a panic inside it
Panicked == [tag |-> "Panic"]
Outcome == HandleResult \cup {Panicked}

Message == [type : {"Call", "Cast", "Info", "Reply"}, msg : Nat]
Msg(t, m) == [type |-> t, msg |-> m]

InitResult == [ok : {TRUE}, wait : OptMs] \cup {[ok |-> FALSE]}

\* thread results (JoinHandle<ActorResult<(), T>>)
NotSpawned == [tag |-> "NotSpawned"]
Running == [tag |-> "Running"]
JoinOk == [tag |-> "Ok"]
AbnormalShutdown(e) == [tag |-> "AbnormalShutdown", desc |-> e]
JoinSendError == [tag |-> "SendError"]
JoinPanic == [tag |-> "Panic"]

\* ---------------------------------------------------------------- clock
Now == 0

set_timeout(wait_ms) == Some(Now + wait_ms)

\* a loop that disarms the deadline whenever a handler names none
apply_timeout_or_clear(new_timeout, current_timeout) ==
    IF new_timeout # None THEN set_timeout(new_timeout[1]) ELSE None

\* `if let Some(ms) = new_timeout { set_timeout(ms, &mut timeout) }`
apply_timeout(new_timeout, current_timeout) ==
    IF new_timeout # None THEN set_timeout(new_timeout[1]) ELSE current_timeout

\* a deadline that stays due for ever once it is armed
timeout_due_once_armed(current_timeout) == current_timeout # None

\* `if let Some(go_time) = timeout { if go_time >= SteadyTime::now() {`
timeout_due(current_timeout) ==
    current_timeout # None /\ current_timeout[1] >= Now

\* shutdown with the reason dropped: every stop ends in Ok(())
shutdown_ignores_reason(reason, reply, receiver_alive, queue) ==
    [queue  |-> IF reply # None /\ receiver_alive
                THEN Append(queue, Msg("Reply", reply[1])) ELSE queue,
     result |-> JoinOk]

\* shutdown(reason, reply, &otx): the reply is sent best-effort (it is lost when
\* the orx receiver is gone), the result depends on the reason alone
shutdown(reason, reply, receiver_alive, queue) ==
    [queue  |-> IF reply # None /\ receiver_alive
                THEN Append(queue, Msg("Reply", reply[1])) ELSE queue,
     result |-> IF reason.tag = "Normal" THEN JoinOk ELSE AbnormalShutdown(reason.desc)]

\* ---------------------------------------------------------------- init
NoRet == [op |-> "none"]
NoLast == [handler |-> "none"]

Init ==
    /\ builder = "built"
    /\ state = NewState
    /\ handle = NotSpawned
    /\ actor = "none"
    /\ pc = "top"
    /\ timeout = None
    /\ irx = <<>>
    /\ orx = <<>>
    /\ caller = [pc |-> "idle"]
    /\ ret = NoRet
    /\ sent = <<>>
    /\ dispatched = <<>>
    /\ last = NoLast
    /\ expected = None
    /\ stopped_normal = FALSE
    /\ init_state = None
    /\ seen0 = None


\* ---------------------------------------------------------------- start
\* the closure given the state as it was before init ran
spawn_state_before_init(before_init, after_init) == before_init

\* the state the spawned closure owns: init mutated it in place (&mut state)
spawn_state(before_init, after_init) == after_init

\* `Err(err) => return Err(err)` comes before thread::Builder::spawn
start_spawns(r) == r.ok

\* Builder::start: init runs synchronously; on Ok the thread is spawned, arms
\* the initial deadline and the Actor is returned; on Err nothing is spawned.
\* `r` is what init returns and `s` the state as init leaves it.
Start(r, s) ==
    /\ builder = "built"
    /\ init_state' = Some(s)
    /\ IF start_spawns(r)
       THEN /\ builder' = "started"
            /\ state' = spawn_state(state, s)
            /\ handle' = Running
            /\ actor' = "held"
            /\ timeout' = IF r.ok THEN apply_timeout(r.wait, None) ELSE None
       ELSE /\ builder' = "init_failed"
            /\ state' = s
            /\ UNCHANGED <<handle, actor, timeout>>
    /\ UNCHANGED <<pc, irx, orx, caller, ret, sent, dispatched, last, expected,
                   stopped_normal, seen0>>

\* ---------------------------------------------------------------- run loop
\* what one match arm leaves behind: the thread's status, the deadline, the
\* actor-to-caller queue and where the loop goes next
Continue(t, q, next) == [handle |-> Running, timeout |-> t, orx |-> q, pc |-> next]
\* a thread that leaves the closure (Err, panic, or the final Ok(())) has its
\* result fixed and goes on to drop what the closure captured
Return(result, t, q) == [handle |-> result, timeout |-> t, orx |-> q, pc |-> "drop_otx"]

\* try!(shutdown(..)): Err(e) returns from the thread, Ok(()) is unwrapped and
\* execution goes on after the match
try_shutdown(reason, reply, t, alive, q, next) ==
    LET sd == shutdown(reason, reply, alive, q)
    IN  IF sd.result = JoinOk
        THEN Continue(t, sd.queue, next)
        ELSE Return(sd.result, t, sd.queue)

\* match self.spec.handle_timeout(&mut state) { .. }
timeout_arm(hr, t, alive, q) ==
    IF hr.tag = "Panic" THEN Return(JoinPanic, t, q)
    ELSE IF hr.tag = "Stop" /\ hr.reply = None
         THEN try_shutdown(hr.reason, None, t, alive, q, "recv")
    ELSE IF hr.tag = "NoReply" /\ hr.timeout = Some(0)
         THEN Continue(set_timeout(0), q, "top")
    ELSE IF hr.tag = "NoReply"
         THEN Continue(apply_timeout(hr.timeout, t), q, "recv")
    ELSE Return(JoinPanic, t, q)

\* match self.spec.handle_call(msg, &otx, &mut state) { .. }
call_arm(hr, t, alive, q) ==
    IF hr.tag = "Panic" THEN Return(JoinPanic, t, q)
    ELSE IF hr.tag = "Reply"
         THEN IF alive
              THEN Continue(apply_timeout(hr.timeout, t),
                            Append(q, Msg("Reply", hr.msg)), "top")
              ELSE Return(JoinSendError, t, q)
    ELSE IF hr.tag = "NoReply"
         THEN Continue(apply_timeout(hr.timeout, t), q, "top")
    ELSE try_shutdown(hr.reason, hr.reply, t, alive, q, "top")

\* a Cast / Info arm that treats its handler like handle_call
cast_arm_as_call(hr, t, alive, q) == call_arm(hr, t, alive, q)

\* match self.spec.handle_cast(..) { .. } and match self.spec.handle_info(..) { .. }
cast_arm(hr, t, alive, q) ==
    IF hr.tag = "Panic" THEN Return(JoinPanic, t, q)
    ELSE IF hr.tag = "Stop"
         THEN try_shutdown(hr.reason, hr.reply, t, alive, q, "top")
    ELSE IF hr.tag = "NoReply"
         THEN Continue(apply_timeout(hr.timeout, t), q, "top")
    ELSE Return(JoinPanic, t, q)

\* a receive that takes the newest envelope instead of the oldest
try_recv_newest(queue) ==
    [msg |-> queue[Len(queue)], rest |-> SubSeq(queue, 1, Len(queue) - 1)]

\* irx.try_recv() on a non-empty channel: the oldest envelope and what remains
try_recv(queue) == [msg |-> Head(queue), rest |-> Tail(queue)]

\* a receive that reports the disconnection ahead of what is still buffered
recv_disconnected_ahead(queue, senders_alive) == ~senders_alive

\* a loop that never notices the disconnection
recv_never_disconnected(queue, senders_alive) == FALSE

\* Err(TryRecvError::Disconnected): nothing buffered and every sender dropped
recv_disconnected(queue, senders_alive) == queue = <<>> /\ ~senders_alive

\* bookkeeping common to every handler invocation: handler `h` ran, observed
\* `state`, ended in `hr`, and the loop applied `arm`; `rest` is the
\* caller-to-actor queue afterwards.  What a
\* handler writes to the state is user code: the handlers here read the state
\* and leave it as it is.
Invoke(h, hr, arm, rest) ==
    /\ last' = [handler |-> h, result |-> hr, at |-> IF h = "handle_timeout" THEN timeout ELSE None]
    /\ seen0' = IF seen0 = None THEN Some(state) ELSE seen0
    /\ stopped_normal' = (stopped_normal \/ (hr.tag = "Stop" /\ hr.reason.tag = "Normal"))
    /\ state' = state
    /\ handle' = arm.handle
    /\ timeout' = arm.timeout
    /\ orx' = arm.orx
    /\ pc' = arm.pc
    /\ irx' = rest

LoopAt(p) == handle = Running /\ pc = p

\* loop top, no deadline due: fall through to try_recv
TimeoutSkip ==
    /\ LoopAt("top")
    /\ ~timeout_due(timeout)
    /\ pc' = "recv"
    /\ last' = NoLast
    /\ UNCHANGED <<builder, state, handle, actor, timeout, irx, orx, caller, ret,
                   sent, dispatched, expected, stopped_normal, init_state, seen0>>

\* loop top, deadline due: handle_timeout runs
TimeoutFire(hr) ==
    /\ LoopAt("top")
    /\ timeout_due(timeout)
    /\ Invoke("handle_timeout", hr, timeout_arm(hr, timeout, actor = "held", orx), irx)
    /\ UNCHANGED <<builder, actor, caller, ret, sent, dispatched, expected, init_state>>

\* the reply payload a handle_call outcome makes the loop send, if any
produced(hr) ==
    IF hr.tag = "Reply" THEN Some(hr.msg)
    ELSE IF hr.tag = "Stop" THEN hr.reply
    ELSE None

\* Ok(Message::Call(msg))
RecvCall(hr) ==
    /\ LoopAt("recv")
    /\ irx # <<>>
    /\ LET r == try_recv(irx)
       IN  /\ r.msg.type = "Call"
           /\ dispatched' = Append(dispatched, r.msg)
           /\ Invoke("handle_call", hr, call_arm(hr, timeout, actor = "held", orx), r.rest)
    /\ expected' = produced(hr)
    /\ UNCHANGED <<builder, actor, caller, ret, sent, init_state>>

\* Ok(Message::Cast(msg))
RecvCast(hr) ==
    /\ LoopAt("recv")
    /\ irx # <<>>
    /\ LET r == try_recv(irx)
       IN  /\ r.msg.type = "Cast"
           /\ dispatched' = Append(dispatched, r.msg)
           /\ Invoke("handle_cast", hr, cast_arm(hr, timeout, actor = "held", orx), r.rest)
    /\ UNCHANGED <<builder, actor, caller, ret, sent, expected, init_state>>

\* Ok(Message::Info(msg))
RecvInfo(hr) ==
    /\ LoopAt("recv")
    /\ irx # <<>>
    /\ LET r == try_recv(irx)
       IN  /\ r.msg.type = "Info"
           /\ dispatched' = Append(dispatched, r.msg)
           /\ Invoke("handle_info", hr, cast_arm(hr, timeout, actor = "held", orx), r.rest)
    /\ UNCHANGED <<builder, actor, caller, ret, sent, expected, init_state>>

\* a loop that throws a Reply envelope away and carries on
RecvReplyIgnored ==
    /\ LoopAt("recv")
    /\ irx # <<>>
    /\ LET r == try_recv(irx)
       IN  /\ r.msg.type = "Reply"
           /\ irx' = r.rest
    /\ pc' = "top"
    /\ UNCHANGED <<builder, state, handle, actor, timeout, orx, caller, ret, sent,
                   dispatched, last, expected, stopped_normal, init_state, seen0>>

\* Ok(hr) => panic!("received unexpected message type"): a Reply in the mailbox
RecvReply ==
    /\ LoopAt("recv")
    /\ irx # <<>>
    /\ LET r == try_recv(irx)
       IN  /\ r.msg.type = "Reply"
           /\ dispatched' = Append(dispatched, r.msg)
           /\ irx' = r.rest
    /\ handle' = JoinPanic
    /\ pc' = "drop_otx"
    /\ UNCHANGED <<builder, state, actor, timeout, orx, caller, ret, sent, last,
                   expected, stopped_normal, init_state, seen0>>

\* Err(TryRecvError::Disconnected) => break; then Ok(())
RecvDisconnected ==
    /\ LoopAt("recv")
    /\ recv_disconnected(irx, actor = "held")
    /\ handle' = JoinOk
    /\ pc' = "drop_otx"
    /\ UNCHANGED <<builder, state, actor, timeout, irx, orx, caller, ret, sent,
                   dispatched, last, expected, stopped_normal, init_state, seen0>>

\* Err(TryRecvError::Empty) => {}
RecvEmpty ==
    /\ LoopAt("recv")
    /\ irx = <<>>
    /\ ~recv_disconnected(irx, actor = "held")
    /\ pc' = "top"
    /\ last' = NoLast
    /\ UNCHANGED <<builder, state, handle, actor, timeout, irx, orx, caller, ret,
                   sent, dispatched, expected, stopped_normal, init_state, seen0>>

\* the thread is leaving the closure: the state (its Drop is user code) and
\* then the otx sender are dropped; the irx receiver still exists
DropOtx ==
    /\ handle \notin {NotSpawned, Running}
    /\ pc = "drop_otx"
    /\ pc' = "drop_irx"
    /\ UNCHANGED <<builder, state, handle, actor, timeout, irx, orx, caller, ret,
                   sent, dispatched, last, expected, stopped_normal, init_state, seen0>>

\* the irx receiver is dropped last, with whatever is still queued; the thread
\* is finished
DropIrx ==
    /\ handle \notin {NotSpawned, Running}
    /\ pc = "drop_irx"
    /\ pc' = "done"
    /\ irx' = <<>>
    /\ UNCHANGED <<builder, state, handle, actor, timeout, orx, caller, ret,
                   sent, dispatched, last, expected, stopped_normal, init_state, seen0>>

RunLoop ==
    \/ TimeoutSkip
    \/ \E hr \in Outcome : TimeoutFire(hr)
    \/ \E hr \in Outcome : RecvCall(hr)
    \/ \E hr \in Outcome : RecvCast(hr)
    \/ \E hr \in Outcome : RecvInfo(hr)
    \/ RecvReply
    \/ RecvDisconnected
    \/ RecvEmpty
    \/ DropOtx
    \/ DropIrx


\* ---------------------------------------------------------------- caller
Idle == [pc |-> "idle"]

\* what cast / call returned: `val` is the payload of Ok(msg), `after_stop`
\* tells whether the operation was issued after a Stop(Normal, _), `want` is
\* what handle_call produced for this very call
Returned(op, res, val, after, want) ==
    [op |-> op, res |-> res, val |-> val, after_stop |-> after, want |-> want]

CanSend == caller = Idle /\ actor = "held" /\ Len(sent) < MaxSends

\* the caller numbers its envelopes: the k-th one it gets into the channel
\* carries payload k
NextMsg == Len(sent) + 1

\* a channel of capacity one: send fails while an envelope is waiting
send_ok_when_empty == pc # "done" /\ irx = <<>>

\* self.sender.send(..) is Ok exactly while the irx receiver exists: it is the
\* last thing an ending thread drops
send_ok == pc # "done"

\* the otx sender is gone: recv() on an empty channel returns RecvError
otx_dropped == pc \in {"drop_irx", "done"}

\* Actor::cast
cast(m) ==
    /\ CanSend
    /\ IF send_ok
       THEN /\ irx' = Append(irx, Msg("Cast", m))
            /\ sent' = Append(sent, Msg("Cast", m))
            /\ ret' = Returned("cast", "Ok", None, stopped_normal, None)
       ELSE /\ ret' = Returned("cast", "SendError", None, stopped_normal, None)
            /\ UNCHANGED <<irx, sent>>
    /\ UNCHANGED <<builder, state, handle, actor, pc, timeout, orx, caller,
                   dispatched, last, expected, stopped_normal, init_state, seen0>>

\* Actor::call, first half: send Message::Call, then block in receiver.recv()
call_send(m) ==
    /\ CanSend
    /\ IF send_ok
       THEN /\ irx' = Append(irx, Msg("Call", m))
            /\ sent' = Append(sent, Msg("Call", m))
            /\ caller' = [pc |-> "waiting", after_stop |-> stopped_normal]
            /\ expected' = None
            /\ UNCHANGED ret
       ELSE /\ ret' = Returned("call", "SendError", None, stopped_normal, None)
            /\ UNCHANGED <<irx, sent, caller, expected>>
    /\ UNCHANGED <<builder, state, handle, actor, pc, timeout, orx,
                   dispatched, last, stopped_normal, init_state, seen0>>

\* Actor::call, second half: recv() returns the oldest buffered envelope, or
\* RecvError once the queue is empty and the otx sender is gone
call_recv ==
    /\ caller.pc = "waiting"
    /\ IF orx # <<>>
       THEN /\ orx' = Tail(orx)
            /\ ret' = IF Head(orx).type = "Reply"
                      THEN Returned("call", "Ok", Some(Head(orx).msg), caller.after_stop, expected)
                      ELSE Returned("call", "Panic", None, caller.after_stop, expected)
       ELSE /\ otx_dropped
            /\ ret' = Returned("call", "RecvError", None, caller.after_stop, expected)
            /\ UNCHANGED orx
    /\ caller' = Idle
    /\ UNCHANGED <<builder, state, handle, actor, pc, timeout, irx, sent,
                   dispatched, last, expected, stopped_normal, init_state, seen0>>

\* the pub `sender` field used directly: actor.sender.send(Message::Info(m))
\* or, against the protocol, actor.sender.send(Message::Reply(m))
send_raw(type, m) ==
    /\ CanSend
    /\ send_ok
    /\ irx' = Append(irx, Msg(type, m))
    /\ sent' = Append(sent, Msg(type, m))
    /\ UNCHANGED <<builder, state, handle, actor, pc, timeout, orx, caller, ret,
                   dispatched, last, expected, stopped_normal, init_state, seen0>>

send_info(m) == send_raw("Info", m)
send_reply(m) == send_raw("Reply", m)

\* the caller drops the Actor: the last itx sender goes, and the orx receiver
\* with whatever is buffered in it
drop_actor ==
    /\ caller = Idle
    /\ actor = "held"
    /\ actor' = "dropped"
    /\ orx' = <<>>
    /\ UNCHANGED <<builder, state, handle, pc, timeout, irx, caller, ret, sent,
                   dispatched, last, expected, stopped_normal, init_state, seen0>>

\* the monotonic clock advances by one unit: an armed deadline comes one unit
\* closer (or lies one unit further back)
Tick ==
    /\ handle = Running
    /\ timeout # None
    /\ timeout[1] > Now - 1
    /\ timeout' = Some(timeout[1] - 1)
    /\ UNCHANGED <<builder, state, handle, actor, pc, irx, orx, caller, ret, sent,
                   dispatched, last, expected, stopped_normal, init_state, seen0>>

\* ---------------------------------------------------------------- specification
Next ==
    \/ \E r \in InitResult, s \in StateVals : Start(r, s)
    \/ TimeoutSkip
    \/ \E hr \in Outcome : TimeoutFire(hr)
    \/ \E hr \in Outcome : RecvCall(hr)
    \/ \E hr \in Outcome : RecvCast(hr)
    \/ \E hr \in Outcome : RecvInfo(hr)
    \/ RecvReply
    \/ RecvDisconnected
    \/ RecvEmpty
    \/ DropOtx
    \/ DropIrx
    \/ cast(NextMsg)
    \/ call_send(NextMsg)
    \/ call_recv
    \/ send_info(NextMsg)
    \/ send_reply(NextMsg)
    \/ drop_actor
    \/ Tick

Spec == Init /\ [][Next]_vars

\* The run-loop thread is scheduled, the clock keeps advancing, and a caller
\* blocked in recv() is woken when an envelope or the disconnection arrives.
FairSpec == Spec /\ WF_vars(RunLoop) /\ WF_vars(Tick) /\ WF_vars(call_recv)


\* ---------------------------------------------------------------- properties
IsError(res) == res \in {"SendError", "RecvError"}
Stopped == last.handler # "none" /\ last.result.tag = "Stop"
StoppedOther == Stopped /\ last.result.reason.tag = "Other"
IsCallOrCast(m) == m.type \in {"Call", "Cast"}
IsPrefix(a, b) == Len(a) <= Len(b) /\ a = SubSeq(b, 1, Len(a))

\* C1: once a handler has returned Stop(Normal, r), every cast or call issued
\* on the handle afterwards returns SendError or RecvError, never Ok.
C1_ClosedAfterStopNormal ==
    (ret.op # "none" /\ ret.after_stop) => IsError(ret.res)

\* C2: a call that returns Ok(v) returns the payload that the handle_call
\* invocation dispatched for that same call produced (its Reply, or its Stop
\* final reply), never a payload emitted while handling another message.
C2_CallReturnsOwnReply ==
    (ret.op = "call" /\ ret.res = "Ok") => ret.val = ret.want

\* C3 (as claimed): whenever any handler returns Stop(Other(desc), r), with r
\* absent or a final reply, the thread ends with Err(AbnormalShutdown(desc)).
C3_StopOtherIsAbnormalShutdown ==
    StoppedOther => handle = AbnormalShutdown(last.result.reason.desc)

\* C3 (amended): Stop(Other(desc), r) from handle_call, handle_cast or
\* handle_info (any r), and Stop(Other(desc), None) from handle_timeout, end the
\* thread with Err(AbnormalShutdown(desc)); Stop(_, Some(r)) from
\* handle_timeout ends it in a panic instead.
C3_StopOtherIsAbnormalShutdownUnlessTimeoutReply ==
    /\ (StoppedOther /\ ~(last.handler = "handle_timeout" /\ last.result.reply # None))
          => handle = AbnormalShutdown(last.result.reason.desc)
    /\ (Stopped /\ last.handler = "handle_timeout" /\ last.result.reply # None)
          => handle = JoinPanic

C3_Witness ==
    /\ StoppedOther
    /\ last.handler = "handle_cast"
    /\ last.result.reply # None
    /\ handle = AbnormalShutdown("d2")

\* C4: the handle_cast / handle_call invocations happen in exactly the order
\* the caller sent the messages: what has been dispatched is always a prefix
\* of what has been sent (no reordering, no duplication, no skipping).
C4_DispatchInSendOrder ==
    /\ IsPrefix(dispatched, sent)
    /\ IsPrefix(SelectSeq(dispatched, IsCallOrCast), SelectSeq(sent, IsCallOrCast))

C4_Witness ==
    /\ Len(dispatched) = MaxSends
    /\ \A i \in 1..Len(dispatched) : IsCallOrCast(dispatched[i])
    /\ dispatched[1].type = "Cast"
    /\ dispatched[MaxSends].type = "Call"

\* C5: handle_timeout is invoked only when the clock has reached or passed the
\* armed deadline, never while the clock is still strictly before it.
C5_TimeoutOnlyWhenDeadlineReached ==
    last.handler = "handle_timeout" => (last.at # None /\ Now >= last.at[1])

\* C6: when handle_timeout returns NoReply(Some(0)), the next loop iteration
\* invokes handle_timeout again, however the clock has advanced in between.
C6_BusyTimeoutFiresNextIteration ==
    [][(last.handler = "handle_timeout" /\ last.result = [tag |-> "NoReply", timeout |-> Some(0)])
          => ~TimeoutSkip]_vars

\* C7: every call eventually returns, whatever handle_call's outcome was: a
\* caller blocked in recv() always gets a Reply or a receive error.
C7_CallEventuallyReturns ==
    (caller.pc = "waiting") ~> (caller.pc = "idle")

\* C8: init runs once, inside start and before any handler; when init fails no
\* thread is spawned and no handler ever runs; when it succeeds the handlers
\* observe the state as init left it.
C8_InitBeforeHandlers ==
    /\ (init_state = None) <=> (builder = "built")
    /\ builder # "started" =>
          (handle = NotSpawned /\ actor = "none" /\ seen0 = None /\ dispatched = <<>>)
    /\ (builder = "started" /\ seen0 = None) => Some(state) = init_state
    /\ seen0 # None => seen0 = init_state

C8_Witness ==
    /\ seen0 = Some([initialized |-> TRUE])
    /\ last.handler = "handle_call"

\* C9: when a handler returns Stop(reason, r) the run loop ends in that
\* iteration (the thread is no longer running, so no handler runs and nothing
\* is dequeued afterwards), and for reason Normal the join result is Ok(()).
C9_StopEndsLoop ==
    Stopped =>
        /\ handle # Running
        /\ (last.result.reason.tag = "Normal" => handle = JoinOk)

\* C10 (as claimed): once every sender is dropped the run loop eventually
\* observes the disconnection and the thread ends with Ok(()), whatever the
\* deadline state, unless handle_timeout stops or panics.
C10_DisconnectEndsLoop ==
    (actor = "dropped" /\ handle = Running)
        ~> \/ handle = JoinOk
           \/ /\ handle # Running
              /\ last.handler = "handle_timeout"
              /\ last.result.tag \in {"Stop", "Panic"}

\* the thread was ended by the handler invocation recorded in `last`: a panic,
\* Stop(Other(_), _), a variant the handler's arm rejects, or a Reply from
\* handle_call that could not be sent
EndedByHandler ==
    /\ handle \notin {NotSpawned, Running, JoinOk}
    /\ last.handler # "none"
    /\ \/ last.result.tag = "Panic" /\ handle = JoinPanic
       \/ /\ last.result.tag = "Stop"
          /\ last.handler = "handle_timeout"
          /\ last.result.reply # None
          /\ handle = JoinPanic
       \/ /\ last.result.tag = "Stop"
          /\ ~(last.handler = "handle_timeout" /\ last.result.reply # None)
          /\ last.result.reason.tag = "Other"
          /\ handle = AbnormalShutdown(last.result.reason.desc)
       \/ last.result.tag = "Reply" /\ last.handler # "handle_call" /\ handle = JoinPanic
       \/ last.result.tag = "Reply" /\ last.handler = "handle_call" /\ handle = JoinSendError

\* the thread was ended by a Reply envelope taken out of the mailbox
EndedByReplyEnvelope ==
    /\ handle = JoinPanic
    /\ dispatched # <<>>
    /\ dispatched[Len(dispatched)].type = "Reply"

\* C10 (amended): once every sender is dropped the thread eventually ends,
\* whatever the deadline state; it ends with Ok(()), by observing the
\* disconnection, unless a handler invocation on the way (for an envelope
\* still queued, or handle_timeout) or a queued Reply envelope ends it first.
C10_DisconnectEndsLoopUnlessHandlerEndsIt ==
    (actor = "dropped" /\ handle = Running)
        ~> (handle = JoinOk \/ EndedByHandler \/ EndedByReplyEnvelope)

C10_Witness ==
    /\ actor = "dropped"
    /\ handle = JoinOk
    /\ last.handler = "handle_timeout"
    /\ timeout # None

IsCall(m) == m.type = "Call"
CallsDispatched == Len(SelectSeq(dispatched, IsCall))

\* what a behaviour that keeps the default handle_call shows: no handle_call
\* invocation has ever returned (the first Call dispatched, if any, panicked
\* and that ended the thread)
DefaultHandleCall ==
    \/ CallsDispatched = 0
    \/ (CallsDispatched = 1 /\ last.handler = "handle_call" /\ last.result = Panicked)

\* C11: with the default (panicking) handle_call, a call never returns Ok, the
\* thread ends in a panic once the Call is dispatched, and every cast or call
\* issued after that returns a closed-channel error.
C11_DefaultHandleCallFailsCall ==
    [][/\ DefaultHandleCall' =>
            /\ (ret'.op = "call" => ret'.res # "Ok")
            /\ (CallsDispatched' = 1 => handle' = JoinPanic)
       /\ (handle = JoinPanic /\ (cast(NextMsg) \/ call_send(NextMsg)))
            => IsError(ret'.res)]_vars

\* C12: cast never blocks; while the run loop is alive it returns Ok(()) and
\* appends exactly one Cast envelope to the mailbox, whatever is already
\* queued; it returns an error only when the loop has terminated (the thread
\* has left the loop and finished), and then nothing is enqueued.
C12_CastFailsOnlyWhenTerminated ==
    [][/\ CanSend => ENABLED cast(NextMsg)
       /\ cast(NextMsg) =>
            /\ ret'.res \in {"Ok", "SendError"}
            /\ handle = Running => ret'.res = "Ok"
            /\ ret'.res = "Ok" => irx' = Append(irx, Msg("Cast", NextMsg))
            /\ ret'.res = "SendError" =>
                  (handle # Running /\ pc = "done" /\ irx' = irx)]_vars

C12_Witness ==
    /\ ret.op = "cast"
    /\ ret.res = "Ok"
    /\ handle = Running
    /\ Len(irx) = MaxSends
    /\ irx[MaxSends].type = "Cast"

\* C13: when handle_call returns NoReply(_), the loop treats it as fatal: the
\* thread ends there (a panic on join), the deadline the outcome carries is
\* not applied, and nothing queued behind the Call is dispatched.
C13_NoReplyFromHandleCallIsFatal ==
    [][(\E hr \in Outcome : hr.tag = "NoReply" /\ RecvCall(hr)) =>
            /\ handle' = JoinPanic
            /\ timeout' = timeout]_vars

\* a step in which handle_cast, handle_info or handle_timeout ends in `hr`
NonCallHandlerStep(hr) == TimeoutFire(hr) \/ RecvCast(hr) \/ RecvInfo(hr)

\* C14: a Reply(v, t) from handle_cast, handle_info or handle_timeout ends the
\* thread in a panic, with no Reply envelope sent to the caller and the
\* deadline t not applied; after any of these handlers the loop is still
\* running only if the outcome was NoReply or Stop.
C14_ReplyFromNonCallHandlerIsFatal ==
    [][\A hr \in Outcome : NonCallHandlerStep(hr) =>
            /\ hr.tag = "Reply" =>
                  (handle' = JoinPanic /\ orx' = orx /\ timeout' = timeout)
            /\ handle' = Running => hr.tag \in {"NoReply", "Stop"}]_vars

C14_Witness ==
    /\ last.handler = "handle_cast"
    /\ last.result.tag = "Reply"
    /\ last.result.timeout # None
    /\ handle = JoinPanic
    /\ caller.pc = "waiting"
    /\ orx = <<>>

\* the loop is about to take a Reply envelope out of the mailbox
ReplyAtHead == LoopAt("recv") /\ irx # <<>> /\ Head(irx).type = "Reply"

\* C15: when the loop dequeues a Reply envelope the thread ends in a panic, no
\* handler is invoked for it, and the state and the deadline are as they were;
\* a thread that has ended dispatches nothing more, so what is queued behind
\* the Reply is never dispatched.
C15_ReplyInMailboxIsFatal ==
    [][/\ (ReplyAtHead /\ RunLoop) =>
            /\ handle' = JoinPanic
            /\ last' = last
            /\ state' = state
            /\ timeout' = timeout
       /\ handle \notin {Running, NotSpawned} => dispatched' = dispatched]_vars

C15_Witness ==
    /\ handle = JoinPanic
    /\ Len(dispatched) = 1
    /\ dispatched[1].type = "Reply"
    /\ Len(sent) = MaxSends
    /\ last = NoLast

\* the step is a handler outcome that carries Some(ms) and is accepted by the
\* loop, which re-arms the deadline at now + ms
RearmedByOutcome ==
    \E hr \in HandleResult :
        /\ hr.tag \in {"Reply", "NoReply"}
        /\ hr.timeout # None
        /\ timeout' = set_timeout(hr.timeout[1])
        /\ TimeoutFire(hr) \/ RecvCall(hr) \/ RecvCast(hr) \/ RecvInfo(hr)

\* C16: the deadline is set by init's initial value and afterwards changed only
\* by a handler outcome that carries Some(ms); an outcome without a deadline
\* and an iteration that finds the mailbox empty leave it as it is; an armed
\* deadline is never cleared.  (The stored value is the distance from the
\* deadline to the clock, so the clock's own advance is set apart.)
C16_DeadlineChangesOnlyByOutcome ==
    [][/\ (timeout' # timeout /\ ~Tick) =>
            \/ (builder = "built" /\ builder' = "started")
            \/ RearmedByOutcome
       /\ timeout # None => timeout' # None]_vars

C16_Witness ==
    /\ handle = Running
    /\ timeout = Some(MaxMs)
    /\ last.handler = "handle_cast"
    /\ last.result = [tag |-> "NoReply", timeout |-> None]

\* a step in which some handler ends in `hr`
HandlerStep(hr) == TimeoutFire(hr) \/ RecvCall(hr) \/ RecvCast(hr) \/ RecvInfo(hr)

\* C17: when a handler returns Stop(reason, Some(r)), Reply(r) is sent to the
\* caller (when its receiver still exists) and the thread ends with the outcome
\* the reason alone decides, Ok for Normal and AbnormalShutdown(desc) for
\* Other(desc), never a SendError, whether or not the reply could be sent; a
\* call whose handle_call returned Stop(reason, Some(r)) returns Ok(r).
C17_StopWithReplyRepliesThenEnds ==
    [][/\ \A hr \in HandleResult :
            (hr.tag = "Stop" /\ hr.reply # None /\ HandlerStep(hr)) =>
                /\ actor = "held" => orx' = Append(orx, Msg("Reply", hr.reply[1]))
                /\ handle' = IF hr.reason.tag = "Normal" THEN JoinOk
                             ELSE AbnormalShutdown(hr.reason.desc)
       /\ (call_recv /\ expected # None) =>
            (ret'.res = "Ok" /\ ret'.val = expected)]_vars

CallsSent == Len(SelectSeq(sent, IsCall))

\* C18: the actor-to-caller channel holds a Reply envelope only while a call is
\* outstanding, at most one, and only once that call's envelope has been
\* dispatched: the loop never emits more Reply envelopes than it has
\* dispatched Calls.
C18_ReplyOnlyForDispatchedCall ==
    orx # <<>> =>
        /\ Len(orx) = 1
        /\ caller.pc = "waiting"
        /\ CallsDispatched = CallsSent

InMailbox(i) == \E k \in 1..Len(irx) : irx[k].msg = i
WasDispatched(i) == \E k \in 1..Len(dispatched) : dispatched[k].msg = i

\* C19 (as claimed): every envelope that gets into the mailbox is eventually
\* dequeued and dispatched, however often handle_timeout fires in between.
C19_EveryEnvelopeDispatched ==
    \A i \in 1..MaxSends : InMailbox(i) ~> WasDispatched(i)

\* C19: the timer cannot starve the mailbox: every envelope that gets into the
\* mailbox is eventually dequeued and dispatched, even when handle_timeout
\* answers NoReply(Some(0)) each time it fires, unless the thread ends first
\* (a stop, a panic or a failed reply send drops what is still queued).
C19_EveryEnvelopeDispatchedUnlessThreadEnds ==
    \A i \in 1..MaxSends : InMailbox(i) ~> (WasDispatched(i) \/ handle # Running)

C19_Witness ==
    /\ handle = Running
    /\ pc = "top"
    /\ last.handler = "handle_timeout"
    /\ last.result = [tag |-> "NoReply", timeout |-> Some(0)]
    /\ irx # <<>>
    /\ dispatched # <<>>

\* C20: no message is lost on disconnect: when the loop observes the
\* disconnection and the thread ends with Ok(()), the Actor has been dropped,
\* the mailbox is empty and every envelope the caller sent has been dispatched,
\* in the order sent (the casts m1..mn among them to handle_cast).
C20_NoMessageLostOnDisconnect ==
    handle = JoinOk =>
        /\ actor = "dropped"
        /\ irx = <<>>
        /\ dispatched = sent

IsCast(m) == m.type = "Cast"

C20_Witness ==
    /\ handle = JoinOk
    /\ Len(sent) = MaxSends
    /\ SelectSeq(sent, IsCast) = sent
    /\ dispatched = sent

====
